---- MODULE Spec2Model ----
(***************************************************************************)
(* Repair-expert web application: the retry wrapper around the generative  *)
(* call (generateWithRetry), the library import / record normalisation     *)
(* (processLibraryData, findVal / findValue) and the application state     *)
(* driven by handleSubmit, resetApp and selectLibraryItem.                 *)
(*                                                                         *)
(* The repository holds four revisions of the application, each with its   *)
(* own service module.  `variant` names the revision being run:            *)
(*   "App" : src/App.tsx          + src/services/geminiService.ts:95-191   *)
(*   "P1"  : src/unnamed/part_001 + src/services/geminiService.ts:1-94     *)
(*   "P0"  : src/unnamed/part_000 + src/unnamed/part_003:1-146             *)
(*   "P2"  : src/unnamed/part_002 + src/unnamed/part_003:147-305           *)
(***************************************************************************)
EXTENDS Integers, Sequences, FiniteSets, TLC

VARIABLES
    variant,        \* revision of the application being run
    inv,            \* one invocation of generateWithRetry (its locals and trace)
    row,            \* a row object handed to the map callback of processLibraryData
    rowOut,         \* what the callback returned for it
    appState,       \* useState: AppState
    viewMode,       \* useState: 'diagnose' | 'library'
    hasKey,         \* useState: credential believed selected (gated revisions)
    description,    \* useState: text of the fault description
    images,         \* useState: attached images, in order
    loadingImages,  \* image files whose FileReader has not finished yet
    analysisResult, \* useState: RepairAnalysis | null
    errorMsg,       \* useState: string | null
    isLibraryView,  \* useState: the result shown is a library archive
    libraryItems,   \* useState: the working record set
    reading,        \* the library file a FileReader is loading, if any
    tasks,          \* handleSubmit invocations awaiting analyzeRepairIssue
    submitted,      \* number of analysis requests started so far
    writer,         \* which request's outcome the result state now shows
    lastOutcome,    \* how the generateWithRetry behind the state now shown ended
    lastImport,     \* the array the last step handed to processLibraryData
    content,        \* the text handed to MarkdownRenderer
    blocks          \* the elements MarkdownRenderer returned for it

retryVars == <<inv>>
rowVars == <<row, rowOut>>
renderVars == <<content, blocks>>
diagnosisVars == <<appState, viewMode, hasKey, description, images, loadingImages, analysisResult,
                   isLibraryView, tasks, submitted, writer, lastOutcome>>
libraryVars == <<errorMsg, libraryItems, reading, lastImport>>
appVars == <<diagnosisVars, libraryVars>>
vars == <<variant, inv, row, rowOut, appVars, renderVars>>

Variants == {"App", "P1", "P0", "P2"}

(***************************************************************************)
(* Bounds of the model.                                                    *)
(***************************************************************************)
MaxRetries == 4
MaxRowKeys == 2
MaxRows == 2
MaxSubmits == 2
MaxImages == 1
MaxFiles == 2
MaxPieces == 4

(***************************************************************************)
(* Failures of the outbound call.  A failure is the thrown object: its     *)
(* message text and its status field ("none" when the field is absent).    *)
(* String.includes is modelled by Substrings: the probe strings of the     *)
(* source that occur in each message text.                                 *)
(***************************************************************************)
Substrings(m) ==
    CASE m = "Rpc failed due to xhr error. error code: 6" -> {"Rpc failed", "xhr error", "Rpc"}
      [] m = "XHR error loading response"                  -> {"XHR error", "XHR"}
      [] m = "got status: 500 Internal Server Error"       -> {"500"}
      [] m = "TypeError: Failed to fetch"                  -> {"Failed to fetch", "fetch"}
      [] m = "network connection lost"                     -> {"network"}
      [] m = "Requested entity was not found."             -> {"Requested entity was not found"}
      [] m = "API key not valid. Please pass a valid API key." -> {"API key not valid"}
      [] m = "fetch rejected: unauthenticated"             -> {"fetch"}
      [] m = "500 Requested entity was not found."         -> {"500", "Requested entity was not found"}
      [] OTHER                                             -> {}

includes(m, s) == s = m \/ s \in Substrings(m)

Err(m, st) == [message |-> m, status |-> st]

Errors ==
    { Err("Rpc failed due to xhr error. error code: 6", "none"),
      Err("XHR error loading response", "none"),
      Err("got status: 500 Internal Server Error", "500"),
      Err("got status: 503 Service Unavailable", "503"),
      Err("TypeError: Failed to fetch", "none"),
      Err("network connection lost", "none"),
      Err("unknown failure", "UNKNOWN"),
      Err("Requested entity was not found.", "404"),
      Err("API key not valid. Please pass a valid API key.", "400"),
      Err("The caller does not have permission", "403"),
      Err("fetch rejected: unauthenticated", "401"),
      Err("500 Requested entity was not found.", "500"),
      Err("Invalid argument", "400") }

Responses == {"report-1", "report-2"}

Requests == {"request-a", "request-b"}

(***************************************************************************)
(* The four revisions of generateWithRetry.                                *)
(***************************************************************************)
InitialDelay == 2000

\* retries argument passed by analyzeRepairIssue (default 3, or 4 in part_003)
RetriesOf(v) == IF v \in {"P0", "P2"} THEN 4 ELSE 3

\* isAuthError without the status tests (message probes only)
isAuthError_MessageOnly(v, error) ==
    CASE v = "App" -> \/ includes(error.message, "Requested entity was not found")
                      \/ includes(error.message, "API key not valid")
      [] v = "P1"  -> includes(error.message, "Requested entity was not found")
      [] OTHER     -> FALSE

\* the authorisation test at the head of the catch block
isAuthError(v, error) ==
    CASE v = "App" -> \/ includes(error.message, "Requested entity was not found")
                      \/ includes(error.message, "API key not valid")
                      \/ error.status = "403"
                      \/ error.status = "401"
      [] v = "P1"  -> includes(error.message, "Requested entity was not found")
      [] OTHER     -> FALSE

isNetworkError(v, error) ==
    CASE v = "App" -> \/ includes(error.message, "500")
                      \/ includes(error.message, "fetch")
                      \/ includes(error.message, "Rpc failed")
                      \/ includes(error.message, "XHR error")
      [] v = "P1"  -> \/ includes(error.message, "500")
                      \/ includes(error.message, "fetch")
                      \/ includes(error.message, "Rpc failed")
      [] OTHER     -> \/ includes(error.message, "Rpc failed")
                      \/ includes(error.message, "xhr error")
                      \/ includes(error.message, "500")
                      \/ includes(error.message, "fetch")
                      \/ includes(error.message, "network")
                      \/ includes(error.message, "Failed to fetch")
                      \/ error.status = "500"
                      \/ error.status = "UNKNOWN"

MaxRetriesError(v) ==
    IF v = "App" THEN Err("MAX_RETRIES_REACHED", "none") ELSE Err("Max retries reached", "none")

NoOutcome == [kind |-> "none"]
\* handleSubmit returned at its validation test
Refused == [kind |-> "refused"]
Returned(r) == [kind |-> "ok", response |-> r]
Thrown(e) == [kind |-> "err", error |-> e]

\* `throw e` leaving generateWithRetry
Throw(t, e) == [t EXCEPT !.pc = "thrown", !.out = Thrown(e)]

\* head of the for loop: test i < retries, then issue ai.models.generateContent
LoopHead(v, t) ==
    IF t.i < t.retries
    THEN [t EXCEPT !.pc = "calling", !.sent = Append(@, t.req)]
    ELSE Throw(t, MaxRetriesError(v))

\* the call: locals set up, API key test (App revision), first pass of the loop
generateWithRetry(v, req, retries, initialDelay, apiKey) ==
    LET t0 == [pc |-> "start", i |-> 0, delay |-> initialDelay, retries |-> retries,
               req |-> req, sent |-> <<>>, slept |-> <<>>, errs |-> <<>>,
               out |-> NoOutcome]
    IN IF v = "App" /\ ~apiKey
       THEN Throw(t0, Err("API_KEY_MISSING", "none"))
       ELSE LoopHead(v, t0)

\* the awaited call resolves: `return await ...`
OnResolve(t, response) == [t EXCEPT !.pc = "returned", !.out = Returned(response)]

\* OnReject with the retry test written i < retries (one sleep too many)
OnReject_OffByOne(v, t, error) ==
    LET t1 == [t EXCEPT !.errs = Append(@, error)]
    IN IF isAuthError(v, error)
       THEN Throw(t1, Err("API_KEY_INVALID", "none"))
       ELSE IF isNetworkError(v, error) /\ t.i < t.retries
            THEN [t1 EXCEPT !.pc = "sleeping", !.slept = Append(@, t.delay)]
            ELSE Throw(t1, error)

\* OnReject retrying whatever failed while attempts remain
OnReject_RetryAll(v, t, error) ==
    LET t1 == [t EXCEPT !.errs = Append(@, error)]
    IN IF isAuthError(v, error)
       THEN Throw(t1, Err("API_KEY_INVALID", "none"))
       ELSE IF t.i < t.retries - 1
            THEN [t1 EXCEPT !.pc = "sleeping", !.slept = Append(@, t.delay)]
            ELSE Throw(t1, error)

\* OnReject with the network test ahead of the authorisation test
OnReject_NetworkFirst(v, t, error) ==
    LET t1 == [t EXCEPT !.errs = Append(@, error)]
    IN IF isNetworkError(v, error) /\ t.i < t.retries - 1
       THEN [t1 EXCEPT !.pc = "sleeping", !.slept = Append(@, t.delay)]
       ELSE IF isAuthError(v, error)
            THEN Throw(t1, Err("API_KEY_INVALID", "none"))
            ELSE Throw(t1, error)

\* the awaited call rejects: the catch block
OnReject(v, t, error) ==
    LET t1 == [t EXCEPT !.errs = Append(@, error)]
    IN IF isAuthError(v, error)
       THEN Throw(t1, Err("API_KEY_INVALID", "none"))
       ELSE IF isNetworkError(v, error) /\ t.i < t.retries - 1
            THEN [t1 EXCEPT !.pc = "sleeping", !.slept = Append(@, t.delay)]
            ELSE Throw(t1, error)

\* OnTimer without the doubling of delay
OnTimer_NoDoubling(v, t) == LoopHead(v, [t EXCEPT !.i = @ + 1])

\* OnTimer without the i++ of the for loop
OnTimer_NoIncrement(v, t) == LoopHead(v, [t EXCEPT !.delay = @ * 2])

\* the backoff timer fires: delay *= 2; continue (i++ and the loop test)
OnTimer(v, t) == LoopHead(v, [t EXCEPT !.delay = @ * 2, !.i = @ + 1])

(***************************************************************************)
(* Specification of one invocation of generateWithRetry, for every         *)
(* revision, retries in 1..MaxRetries and every sequence of outcomes of    *)
(* the outbound call.                                                      *)
(***************************************************************************)
NoInvocation == [pc |-> "idle"]
NoRow == [kind |-> "none"]
RetryIdle == inv = NoInvocation
RowIdle == row = NoRow /\ rowOut = NoRow
RenderIdle == content = <<>> /\ blocks = <<>>

\* null, for errorMsg and analysisResult
NoMsg == "<null>"
NoResult == [diagnosis |-> "<null>"]
NoFile == [name |-> "<none>"]
NoImport == [called |-> FALSE]

\* the state of the component when it is mounted
AppMounted ==
    /\ appState = "IDLE"
    /\ viewMode = "diagnose"
    /\ hasKey = TRUE
    /\ description = <<>>
    /\ images = <<>>
    /\ loadingImages = {}
    /\ analysisResult = NoResult
    /\ errorMsg = NoMsg
    /\ isLibraryView = FALSE
    /\ libraryItems = <<>>
    /\ reading = NoFile
    /\ tasks = <<>>
    /\ submitted = 0
    /\ writer = 0
    /\ lastOutcome = NoOutcome
    /\ lastImport = NoImport

InitRetry ==
    /\ variant \in Variants
    /\ RowIdle
    /\ RenderIdle
    /\ AppMounted
    /\ \E req \in Requests, retries \in 1..MaxRetries, apiKey \in BOOLEAN :
          /\ (variant # "App" => apiKey)
          /\ inv = generateWithRetry(variant, req, retries, InitialDelay, apiKey)

CallResolves ==
    /\ inv.pc = "calling"
    /\ \E r \in Responses : inv' = OnResolve(inv, r)
    /\ UNCHANGED <<variant, rowVars, renderVars, appVars>>

CallRejects ==
    /\ inv.pc = "calling"
    /\ \E e \in Errors : inv' = OnReject(variant, inv, e)
    /\ UNCHANGED <<variant, rowVars, renderVars, appVars>>

TimerFires ==
    /\ inv.pc = "sleeping"
    /\ inv' = OnTimer(variant, inv)
    /\ UNCHANGED <<variant, rowVars, renderVars, appVars>>

NextRetry == CallResolves \/ CallRejects \/ TimerFires

SpecRetry == InitRetry /\ [][NextRetry]_vars

(***************************************************************************)
(* Record normalisation.  Text is a sequence of one-character strings, so  *)
(* that trim() is computed; a value of a row is a JavaScript value (string,*)
(* number, boolean or null).  The aliases written in Chinese in the source *)
(* are spelled here in pinyin: miaoshu (U+63CF U+8FF0), guzhang (U+6545     *)
(* U+969C), guzhangmiaoshu, wenti (U+95EE U+9898), xianxiang (U+73B0       *)
(* U+8C61), shebei (U+8BBE U+5907), xinghao (U+578B U+53F7), mingcheng,     *)
(* shebeimingcheng, qijian, biaoti, fangan (U+65B9 U+6848), chuli, fenxi,   *)
(* wentifenxi, jiejuefangan, weixiufangan, chulifangfa, fenlei, leibie.     *)
(***************************************************************************)
Str(s) == [t |-> "string", s |-> s]
Num(n) == [t |-> "number", n |-> n]
Bool(b) == [t |-> "boolean", b |-> b]
Null == [t |-> "null"]

\* `undefined` where a string is expected
Undefined == <<"undefined">>

IsSpace(c) == c \in {" ", "\t", "\n"}

RECURSIVE TrimStart(_)
TrimStart(s) == IF s # <<>> /\ IsSpace(Head(s)) THEN TrimStart(Tail(s)) ELSE s

RECURSIVE TrimEnd(_)
TrimEnd(s) ==
    IF s # <<>> /\ IsSpace(s[Len(s)]) THEN TrimEnd(SubSeq(s, 1, Len(s) - 1)) ELSE s

\* String.prototype.trim
trim(s) == TrimEnd(TrimStart(s))

Digits == <<"0", "1", "2", "3", "4", "5", "6", "7", "8", "9">>

\* String(value)
String(val) ==
    CASE val.t = "string"  -> val.s
      [] val.t = "number"  -> <<Digits[val.n + 1]>>
      [] val.t = "boolean" -> IF val.b THEN <<"t", "r", "u", "e">> ELSE <<"f", "a", "l", "s", "e">>
      [] OTHER             -> <<"n", "u", "l", "l">>

\* truthiness of a JavaScript value
Truthy(val) ==
    CASE val.t = "string"  -> val.s # <<>>
      [] val.t = "number"  -> val.n # 0
      [] val.t = "boolean" -> val.b
      [] OTHER             -> FALSE

\* String.prototype.toLowerCase on the key names of the model
toLowerCase(k) ==
    CASE k = "Description" -> "description"
      [] k = "Issue"       -> "issue"
      [] k = "TITLE"       -> "title"
      [] k = "Solution"    -> "solution"
      [] OTHER             -> k

Range(f) == {f[j] : j \in DOMAIN f}

\* a row object: its own keys in insertion order, each with its value
Obj(fields) == [kind |-> "object", fields |-> fields]
NullRow == [kind |-> "null"]

\* Object.keys(item)
ObjectKeys(item) == [j \in 1..Len(item.fields) |-> item.fields[j].key]

\* Array.prototype.find over the keys, given the positions of the keys that
\* satisfy the test: the first of them, 0 when there is none
FirstKey(hits) ==
    IF hits = {} THEN 0 ELSE CHOOSE j \in hits : \A h \in hits : j <= h

\* the alias lists of processLibraryData
DescKeys(v) ==
    IF v \in {"App", "P0"}
    THEN <<"description", "miaoshu", "guzhang", "xianxiang", "issue">>
    ELSE <<"description", "miaoshu", "guzhang", "guzhangmiaoshu", "wenti", "xianxiang", "issue">>

NameKeys(v) ==
    IF v \in {"App", "P0"}
    THEN <<"name", "shebei", "xinghao", "title">>
    ELSE <<"name", "mingcheng", "shebei", "shebeimingcheng", "qijian", "biaoti", "title">>

AnalysisKeys(v) ==
    IF v \in {"App", "P0"}
    THEN <<"analysis", "fangan", "chuli", "solution">>
    ELSE <<"analysis", "fenxi", "wentifenxi", "jiejuefangan", "weixiufangan",
           "chulifangfa", "solution", "fix">>

CategoryKeys == <<"category", "fenlei", "leibie", "type">>

\* findVal returning the string form of the value untrimmed
findVal_NoTrim(item, keys) ==
    LET ks == ObjectKeys(item)
        match == FirstKey({j \in DOMAIN ks : toLowerCase(ks[j]) \in Range(keys)})
    IN IF match # 0 THEN String(item.fields[match].value) ELSE Undefined

\* findVal of App.tsx and part_000: the first key of the row whose lower-case
\* form is in the alias list
findVal(item, keys) ==
    LET ks == ObjectKeys(item)
        match == FirstKey({j \in DOMAIN ks : toLowerCase(ks[j]) \in Range(keys)})
    IN IF match # 0 THEN trim(String(item.fields[match].value)) ELSE Undefined

\* findValue of part_001 and part_002: the first alias, in list order, that
\* has a key of the row equal to it ignoring case and a truthy value
RECURSIVE findValueFrom(_, _, _)
findValueFrom(item, keys, n) ==
    IF n > Len(keys) THEN Undefined
    ELSE LET ks == ObjectKeys(item)
             match == FirstKey({j \in DOMAIN ks : toLowerCase(ks[j]) = toLowerCase(keys[n])})
         IN IF match # 0 /\ Truthy(item.fields[match].value)
            THEN trim(String(item.fields[match].value))
            ELSE findValueFrom(item, keys, n + 1)

\* findValue resolving by the row's key order, as findVal does
findValue_KeyOrder(item, keys) ==
    LET ks == ObjectKeys(item)
        match == FirstKey({j \in DOMAIN ks : toLowerCase(ks[j]) \in Range(keys)})
    IN IF match # 0 THEN trim(String(item.fields[match].value)) ELSE Undefined

findValue(item, keys) == findValueFrom(item, keys, 1)

\* the lookup each revision uses
Lookup(v, item, keys) ==
    IF v \in {"App", "P0"} THEN findVal(item, keys) ELSE findValue(item, keys)

\* `!x` for x a string or undefined
Falsy(x) == x = Undefined \/ x = <<>>

\* x || d
OrElse(x, d) == IF Falsy(x) THEN d ELSE x

UnknownDevice == <<"[unknown device]">>
Uncategorised == <<"[uncategorised]">>
Archive(v) == IF v = "P0" THEN <<"[repair archive]">> ELSE <<"[history archive]">>

\* what the callback returns for a row it drops
NullItem == [kind |-> "null"]

\* the map callback without its "if (!desc) return null"
mapItem_KeepsBlank(v, item, index) ==
    [kind        |-> "item",
     id          |-> index,
     name        |-> OrElse(Lookup(v, item, NameKeys(v)), UnknownDevice),
     category    |-> IF v = "P2"
                     THEN OrElse(Lookup(v, item, CategoryKeys), Uncategorised)
                     ELSE Archive(v),
     description |-> Lookup(v, item, DescKeys(v)),
     analysis    |-> Lookup(v, item, AnalysisKeys(v))]

\* the map callback of processLibraryData (for a row object)
mapItem(v, item, index) ==
    LET desc == Lookup(v, item, DescKeys(v))
    IN IF Falsy(desc) THEN NullItem
       ELSE [kind        |-> "item",
             id          |-> index,
             name        |-> OrElse(Lookup(v, item, NameKeys(v)), UnknownDevice),
             category    |-> IF v = "P2"
                             THEN OrElse(Lookup(v, item, CategoryKeys), Uncategorised)
                             ELSE Archive(v),
             description |-> desc,
             analysis    |-> Lookup(v, item, AnalysisKeys(v))]

(***************************************************************************)
(* Specification of the map callback on one row object: every row of up to *)
(* MaxRowKeys distinct keys over RowKeys and RowValues, every revision.    *)
(***************************************************************************)
RowKeys == {"description", "Issue", "name", "TITLE", "solution", "remark"}

RowValues ==
    { Str(<<"a">>), Str(<<" ", "b", " ">>), Str(<<" ">>), Str(<<>>), Num(0), Bool(FALSE),
      Num(7), Bool(TRUE) }

Fields == [key : RowKeys, value : RowValues]

RowObjects ==
    { Obj(f) : f \in { g \in UNION { [1..n -> Fields] : n \in 0..MaxRowKeys } :
                          \A a, b \in DOMAIN g : a # b => g[a].key # g[b].key } }

InitRow ==
    /\ variant \in Variants
    /\ RetryIdle
    /\ AppMounted
    /\ row \in RowObjects
    /\ rowOut = NoRow
    /\ RenderIdle

NormaliseRow ==
    /\ rowOut = NoRow
    /\ rowOut' = mapItem(variant, row, 0)
    /\ UNCHANGED <<variant, inv, row, appVars, renderVars>>

NextRow == NormaliseRow

SpecRow == InitRow /\ [][NextRow]_vars

(***************************************************************************)
(* Library import: handleFileUpload, the FileReader onload callbacks       *)
(* (handleJsonUpload, handleExcelUpload in part_001 and part_002) and      *)
(* processLibraryData.                                                     *)
(***************************************************************************)
\* a filter that lets every result of the map callback through
FilterBoolean_Identity(mapped) == mapped

\* Array.prototype.filter(Boolean) on the results of the map callback
FilterBoolean(mapped) == SelectSeq(mapped, LAMBDA m : m # NullItem)

\* data.map(callback): Object.keys throws a TypeError on a null element
MapThrows(data) == \E j \in 1..Len(data) : data[j].kind = "null"

\* the items processLibraryData computes from the parsed array
ItemsOf(v, data) == FilterBoolean([j \in 1..Len(data) |-> mapItem(v, data[j], j - 1)])

NoValidDataMsg == "no valid data found"

\* processLibraryData appending to the records already held
processLibraryData_Merge(data) ==
    LET items == ItemsOf(variant, data)
    IN IF variant = "P2"
       THEN IF Len(items) = 0
            THEN /\ errorMsg' = NoValidDataMsg
                 /\ UNCHANGED libraryItems
            ELSE /\ libraryItems' = libraryItems \o items
                 /\ errorMsg' = NoMsg
       ELSE /\ libraryItems' = libraryItems \o items
            /\ UNCHANGED errorMsg

\* processLibraryData(data), for data.map not throwing
processLibraryData(data) ==
    LET items == ItemsOf(variant, data)
    IN IF variant = "P2"
       THEN IF Len(items) = 0
            THEN /\ errorMsg' = NoValidDataMsg
                 /\ UNCHANGED libraryItems
            ELSE /\ libraryItems' = items
                 /\ errorMsg' = NoMsg
       ELSE /\ libraryItems' = items
            /\ UNCHANGED errorMsg

\* what the last step did with a chosen file: handed the array data to
\* processLibraryData (replacing says whether records were held before), or
\* ended without calling it, for the reason why, holding the records before
Called(data) == [called |-> TRUE, data |-> data, replacing |-> Len(libraryItems) > 0]
Skipped(why) == [called |-> FALSE, why |-> why, before |-> libraryItems]

\* fileName.toLowerCase() and the endsWith tests, on the file names of the model
Extension(name) ==
    CASE name = "cases.json" -> ".json"
      [] name = "CASES.XLSX" -> ".xlsx"
      [] name = "cases.xls"  -> ".xls"
      [] OTHER               -> "other"

\* the message set by the catch block of a reader callback
ParseErrorMsg(v, kind, cause) ==
    CASE v \in {"App", "P0"} -> IF kind = "json" THEN "JSON format error" ELSE "Excel parse failed"
      [] v = "P1"            -> IF kind = "json" THEN "parse failed" ELSE "Excel parse failed"
      [] OTHER               -> IF kind = "json"
                                THEN IF cause = "not an array"
                                     THEN "JSON parse failed: root must be an array"
                                     ELSE "JSON parse failed: error"
                                ELSE IF cause = "no sheets"
                                     THEN "Excel parse failed: file is empty"
                                     ELSE "Excel parse failed: error"

\* rows of the files of the model
SampleRows ==
    { Obj(<<[key |-> "name", value |-> Str(<<"a">>)],
            [key |-> "description", value |-> Str(<<" ", "b", " ">>)],
            [key |-> "solution", value |-> Str(<<"a">>)]>>),
      Obj(<<[key |-> "Issue", value |-> Str(<<"a">>)]>>),
      Obj(<<[key |-> "remark", value |-> Str(<<"a">>)]>>),
      Obj(<<[key |-> "description", value |-> Str(<<" ">>)],
            [key |-> "name", value |-> Str(<<"a">>)]>>),
      Obj(<<[key |-> "TITLE", value |-> Str(<<"b">>)],
            [key |-> "description", value |-> Num(0)]>>) }

Batches(rows) == UNION { [1..n -> rows] : n \in 0..MaxRows }

\* what a chosen file holds: text that JSON.parse rejects, JSON that is not
\* an array, a JSON array (possibly with a null element), bytes XLSX.read
\* rejects, a workbook without sheets, or a first sheet of rows
JsonContents ==
    {[kind |-> "garbage"], [kind |-> "not an array"]}
        \cup {[kind |-> "rows", rows |-> b] : b \in Batches(SampleRows \cup {NullRow})}

ExcelContents ==
    {[kind |-> "garbage"], [kind |-> "no sheets"]}
        \cup {[kind |-> "rows", rows |-> b] : b \in Batches(SampleRows)}

\* a legacy workbook: one without sheets, or one sheet holding a single row
XlsContents ==
    {[kind |-> "no sheets"]} \cup {[kind |-> "rows", rows |-> <<r>>] : r \in SampleRows}

ImportFiles ==
    {[name |-> "cases.json", content |-> c] : c \in JsonContents}
        \cup {[name |-> "CASES.XLSX", content |-> c] : c \in ExcelContents}
        \cup {[name |-> "cases.xls", content |-> c] : c \in XlsContents}
        \cup {[name |-> "cases.csv", content |-> [kind |-> "garbage"]]}

UnsupportedMsg == "unsupported file format"

\* the library view is on screen (the gate screen replaces it while !hasKey)
LibraryShown == viewMode = "library" /\ hasKey

\* handleFileUpload: the synchronous part, up to reader.readAs...(file)
handleFileUpload(file) ==
    /\ LibraryShown
    /\ reading = NoFile
    /\ IF Extension(file.name) \in {".json", ".xlsx", ".xls"}
       THEN /\ errorMsg' = NoMsg
            /\ reading' = file
            /\ lastImport' = NoImport
       ELSE /\ errorMsg' = IF variant \in {"P1", "P2"} THEN UnsupportedMsg ELSE NoMsg
            /\ lastImport' = Skipped("unsupported")
            /\ UNCHANGED reading
    /\ UNCHANGED <<libraryItems, diagnosisVars>>

\* a catch block that also empties the list
CatchParseError_ClearsList(kind, cause) ==
    /\ errorMsg' = ParseErrorMsg(variant, kind, cause)
    /\ libraryItems' = <<>>

\* the catch block of a reader callback: setErrorMsg(...), nothing else
CatchParseError(kind, cause) ==
    /\ errorMsg' = ParseErrorMsg(variant, kind, cause)
    /\ UNCHANGED libraryItems

\* reader.onload of the .json branch (handleJsonUpload)
JsonLoaded ==
    /\ reading # NoFile
    /\ Extension(reading.name) = ".json"
    /\ reading' = NoFile
    /\ CASE reading.content.kind = "garbage" ->
              /\ CatchParseError("json", "syntax")
              /\ lastImport' = Skipped("garbage")
         [] reading.content.kind = "not an array" ->
              /\ IF variant \in {"P1", "P2"}
                 THEN CatchParseError("json", "not an array")
                 ELSE UNCHANGED <<errorMsg, libraryItems>>
              /\ lastImport' = Skipped("not an array")
         [] OTHER ->
              /\ lastImport' = Called(reading.content.rows)
              /\ IF MapThrows(reading.content.rows)
                 THEN CatchParseError("json", "type error")
                 ELSE processLibraryData(reading.content.rows)
    /\ UNCHANGED diagnosisVars

\* reader.onload of the .xlsx / .xls branch (handleExcelUpload)
ExcelLoaded ==
    /\ reading # NoFile
    /\ Extension(reading.name) \in {".xlsx", ".xls"}
    /\ reading' = NoFile
    /\ CASE reading.content.kind = "garbage" ->
              /\ CatchParseError("excel", "unreadable")
              /\ lastImport' = Skipped("garbage")
         [] reading.content.kind = "no sheets" ->
              IF variant = "P2"
              THEN /\ CatchParseError("excel", "no sheets")
                   /\ lastImport' = Skipped("no sheets")
              ELSE /\ lastImport' = Called(<<>>)
                   /\ processLibraryData(<<>>)
         [] OTHER ->
              /\ lastImport' = Called(reading.content.rows)
              /\ processLibraryData(reading.content.rows)
    /\ UNCHANGED diagnosisVars

\* the "clear list" button of part_002: setLibraryItems([])
ClearList ==
    /\ variant = "P2"
    /\ LibraryShown
    /\ Len(libraryItems) > 0
    /\ libraryItems' = <<>>
    /\ lastImport' = NoImport
    /\ UNCHANGED <<errorMsg, reading, diagnosisVars>>

(***************************************************************************)
(* Specification of the library view: any sequence of file imports and     *)
(* list clears, in every revision.                                         *)
(***************************************************************************)
InitImport ==
    /\ variant \in Variants
    /\ RetryIdle
    /\ RowIdle
    /\ RenderIdle
    /\ appState = "IDLE"
    /\ viewMode = "library"
    /\ hasKey = TRUE
    /\ description = <<>>
    /\ images = <<>>
    /\ loadingImages = {}
    /\ analysisResult = NoResult
    /\ errorMsg = NoMsg
    /\ isLibraryView = FALSE
    /\ libraryItems = <<>>
    /\ reading = NoFile
    /\ tasks = <<>>
    /\ submitted = 0
    /\ writer = 0
    /\ lastOutcome = NoOutcome
    /\ lastImport = NoImport

ChooseFile ==
    /\ \E file \in ImportFiles : handleFileUpload(file)
    /\ UNCHANGED <<variant, retryVars, rowVars, renderVars>>

ReaderLoadsJson == JsonLoaded /\ UNCHANGED <<variant, retryVars, rowVars, renderVars>>

ReaderLoadsExcel == ExcelLoaded /\ UNCHANGED <<variant, retryVars, rowVars, renderVars>>

ClearLibrary == ClearList /\ UNCHANGED <<variant, retryVars, rowVars, renderVars>>

NextImport == ChooseFile \/ ReaderLoadsJson \/ ReaderLoadsExcel \/ ClearLibrary

SpecImport == InitImport /\ [][NextImport]_vars

(***************************************************************************)
(* The diagnosis flow: handleSubmit, analyzeRepairIssue, resetApp,         *)
(* selectLibraryItem, handleReAnalyze and the key gate.                    *)
(***************************************************************************)
\* what the outbound call resolves to: response.text and the grounding chunks
AppResponses ==
    { [text |-> "report-1", chunks |-> <<>>],
      [text |-> "", chunks |-> <<[web |-> TRUE, uri |-> "https://u", title |-> ""]>>] }

\* rejections of the outbound call: one transient, one that signals a bad
\* credential where the revision has such a class, one of neither class
AppErrors ==
    { Err("Rpc failed due to xhr error. error code: 6", "none"),
      Err("Requested entity was not found.", "404"),
      Err("Invalid argument", "400") }

\* texts a user types into the description box
TypedDescriptions == { <<"a">>, <<" ">> }

\* the object {} returned for a chunk that is not kept: it has no web field
EmptySource == [empty |-> TRUE]

\* rawChunks.map(...) of analyzeRepairIssue
GroundingSources(v, chunks) ==
    [j \in 1..Len(chunks) |->
        IF v \in {"P0", "P2"}
        THEN IF chunks[j].web /\ chunks[j].uri # "" /\ chunks[j].title # ""
             THEN [web |-> [uri |-> chunks[j].uri, title |-> chunks[j].title]]
             ELSE EmptySource
        ELSE IF chunks[j].web
             THEN [web |-> [uri |-> chunks[j].uri, title |-> chunks[j].title]]
             ELSE EmptySource]

\* response.text || "<fallback>"
FallbackText(v) ==
    CASE v = "App" -> "engine returned no valid text"
      [] v = "P1"  -> "cannot generate analysis result"
      [] OTHER     -> "cannot generate analysis result, retry later"

\* the value analyzeRepairIssue returns
AnalysisOf(v, response) ==
    [diagnosis |-> "Analysis Complete",
     rawText   |-> IF response.text = "" THEN FallbackText(v) ELSE response.text,
     sources   |-> GroundingSources(v, response.chunks)]

\* the message texts analyzeRepairIssue throws
ConnectionMsg(v) ==
    IF v = "P0" THEN "diagnosis engine connection fluctuates, please retry"
    ELSE "server connection unstable (Network Error), please retry"

NotFoundMsg == "model service not found (404)"

GenericAnalysisMsg(v) ==
    CASE v = "P1" -> "error during diagnosis, please retry"
      [] v = "P0" -> "error during diagnosis, check the input or retry later"
      [] OTHER    -> "error during analysis, retry later"

\* what analyzeRepairIssue throws when generateWithRetry throws error
AnalyzeError(v, error) ==
    CASE v = "App" -> error
      [] v = "P1"  -> IF error.message = "API_KEY_INVALID"
                      THEN error
                      ELSE Err(GenericAnalysisMsg(v), "none")
      [] OTHER     ->
           IF \/ includes(error.message, "500")
              \/ includes(error.message, "XHR")
              \/ includes(error.message, "Rpc")
              \/ includes(error.message, "UNKNOWN")
           THEN Err(ConnectionMsg(v), "none")
           ELSE IF v = "P2" /\ (includes(error.message, "404") \/ includes(error.message, "NOT_FOUND"))
                THEN Err(NotFoundMsg, "none")
                ELSE Err(GenericAnalysisMsg(v), "none")

ReauthoriseMsg == "API key authorisation invalid, please authorise again"
ValidationMsg == "please describe the fault or upload a picture"

\* the messages on which the catch block of handleSubmit drops the key
KeyErrors(v) ==
    CASE v = "App" -> {"API_KEY_INVALID", "API_KEY_MISSING"}
      [] v = "P1"  -> {"API_KEY_INVALID"}
      [] OTHER     -> {}

\* the image files of the model, numbered in the order the user picks them
ImageFiles(cap) == 1..cap

\* file.type of an image file
MimeTypeOf(file) == IF file % 2 = 1 THEN "image/png" ELSE "image/jpeg"

(***************************************************************************)
(* Texts are assembled from pieces: a literal of the template, an          *)
(* interpolated text, or an interpolated number.                           *)
(***************************************************************************)
Lit(s) == [lit |-> s]
Txt(chars) == [txt |-> chars]
Idx(n) == [idx |-> n]

\* the literals of the case template of handleSubmit, by revision
CaseLabel(v) ==
    CASE v = "App" -> "[history case "
      [] v = "P2"  -> "[Case "
      [] OTHER     -> "[case "

NameLabel(v) ==
    CASE v = "P1" -> "]\ndevice/model: "
      [] v = "P2" -> "] device name: "
      [] OTHER    -> "]device: "

SymptomLabel(v) == IF v = "P2" THEN " | fault description: " ELSE "\nsymptom: "

SolutionLabel(v) == IF v = "P2" THEN " | archived solution: " ELSE "\nsolution: "

\* the placeholder of `item.analysis || '<none>'`
NonePlaceholder == "wu"

Separator == "\n---\n"

\* the template literal of one library item, index counted from 0
CaseBlock_ZeroBased(v, item, index) ==
    << Lit(CaseLabel(v)), Idx(index), Lit(NameLabel(v)), Txt(item.name),
       Lit(SymptomLabel(v)), Txt(item.description), Lit(SolutionLabel(v)),
       IF Falsy(item.analysis) THEN Lit(NonePlaceholder) ELSE Txt(item.analysis) >>

CaseBlock(v, item, index) ==
    << Lit(CaseLabel(v)), Idx(index + 1), Lit(NameLabel(v)), Txt(item.name),
       Lit(SymptomLabel(v)), Txt(item.description), Lit(SolutionLabel(v)),
       IF Falsy(item.analysis) THEN Lit(NonePlaceholder) ELSE Txt(item.analysis) >>

\* Array.prototype.join(separator) on texts
RECURSIVE Join(_, _)
Join(texts, sep) ==
    IF Len(texts) = 0 THEN <<>>
    ELSE IF Len(texts) = 1 THEN texts[1]
    ELSE texts[1] \o <<Lit(sep)>> \o Join(Tail(texts), sep)

\* kbContext of handleSubmit: undefined (no text) for an empty library
NoContext == <<>>

KbContext(v, items) ==
    IF Len(items) > 0
    THEN Join([j \in 1..Len(items) |-> CaseBlock(v, items[j], j - 1)], Separator)
    ELSE NoContext

\* apiImages of handleSubmit
ApiImages(imgs) == [j \in 1..Len(imgs) |-> [data |-> imgs[j], mimeType |-> MimeTypeOf(imgs[j])]]

\* the literals of textPrompt in analyzeRepairIssue, by revision
PromptHead(v) == IF v = "P2" THEN "user device/problem description: " ELSE "[current fault report]\ndescription: "

KbHead(v) ==
    CASE v \in {"App", "P1"} -> "[to consult: own repair knowledge base]\n"
      [] v = "P0"            -> "[to consult: own repair knowledge base]\ncheck the analysis fields first:\n\n"
      [] OTHER               -> "*** own repair knowledge base ***\nprefer these cases:\n\n"

KbFoot(v) == IF v = "P2" THEN "\n\n*** end of knowledge base ***\n\n" ELSE "\n\n"

PromptTail(v) ==
    CASE v = "App" -> "act as the repair expert and output the final plan."
      [] v = "P1"  -> "act as the repair expert and output the plan."
      [] v = "P0"  -> "act as the repair expert, combine the above and output the final plan."
      [] OTHER     -> "combine the pictures (if any), the knowledge base and your expertise."

\* textPrompt of analyzeRepairIssue
TextPrompt(v, desc, knowledgeBase) ==
    <<Lit(PromptHead(v)), Txt(desc), Lit("\n\n")>>
        \o (IF knowledgeBase # NoContext
            THEN <<Lit(KbHead(v))>> \o knowledgeBase \o <<Lit(KbFoot(v))>>
            ELSE <<>>)
        \o <<Lit(PromptTail(v))>>

\* the params analyzeRepairIssue passes to generateWithRetry: the parts (one
\* inlineData part per image, then the text part) and the config
RequestOf(v, desc, apiImages, knowledgeBase) ==
    [parts |-> [j \in 1..Len(apiImages) |-> [inlineData |-> apiImages[j]]]
                   \o <<[text |-> TextPrompt(v, desc, knowledgeBase)]>>,
     googleSearch |-> TRUE]

RemoveAt(seq, k) == [j \in 1..(Len(seq) - 1) |-> IF j < k THEN seq[j] ELSE seq[j + 1]]

\* SubmitContinues without its setHasKey(false)
SubmitContinues_KeepsKey(token, g) ==
    /\ writer' = token
    /\ lastOutcome' = g.out
    /\ IF g.out.kind = "ok"
       THEN /\ analysisResult' = AnalysisOf(variant, g.out.response)
            /\ appState' = "SUCCESS"
            /\ UNCHANGED <<hasKey, errorMsg>>
       ELSE LET err == AnalyzeError(variant, g.out.error)
            IN /\ IF err.message \in KeyErrors(variant)
                  THEN /\ hasKey' = hasKey
                       /\ errorMsg' = ReauthoriseMsg
                  ELSE /\ errorMsg' = err.message
                       /\ UNCHANGED hasKey
               /\ appState' = "ERROR"
               /\ UNCHANGED analysisResult

\* the part of handleSubmit after the await, for the invocation `token`
\* whose generateWithRetry has ended in state g
SubmitContinues(token, g) ==
    /\ writer' = token
    /\ lastOutcome' = g.out
    /\ IF g.out.kind = "ok"
       THEN /\ analysisResult' = AnalysisOf(variant, g.out.response)
            /\ appState' = "SUCCESS"
            /\ UNCHANGED <<hasKey, errorMsg>>
       ELSE LET err == AnalyzeError(variant, g.out.error)
            IN /\ IF err.message \in KeyErrors(variant)
                  THEN /\ hasKey' = FALSE
                       /\ errorMsg' = ReauthoriseMsg
                  ELSE /\ errorMsg' = err.message
                       /\ UNCHANGED hasKey
               /\ appState' = "ERROR"
               /\ UNCHANGED analysisResult

\* handleSubmit that also sets the ERROR state when it refuses blank input
handleSubmit_ErrorOnBlank(finalDesc, imgs, libView, apiKey) ==
    IF trim(finalDesc) = <<>> /\ Len(imgs) = 0
    THEN /\ errorMsg' = ValidationMsg
         /\ isLibraryView' = libView
         /\ lastOutcome' = Refused
         /\ appState' = "ERROR"
         /\ UNCHANGED <<analysisResult, hasKey, tasks, submitted, writer>>
    ELSE LET g == generateWithRetry(variant,
                                    RequestOf(variant, finalDesc, ApiImages(imgs),
                                              KbContext(variant, libraryItems)),
                                    RetriesOf(variant), InitialDelay, apiKey)
         IN /\ submitted < MaxSubmits
            /\ submitted' = submitted + 1
            /\ isLibraryView' = FALSE
            /\ IF g.pc = "thrown"
               THEN /\ SubmitContinues(submitted + 1, g)
                    /\ UNCHANGED tasks
               ELSE /\ appState' = "ANALYZING"
                    /\ errorMsg' = NoMsg
                    /\ writer' = 0
                    /\ lastOutcome' = NoOutcome
                    /\ tasks' = Append(tasks, [token |-> submitted + 1, g |-> g,
                                             args |-> [description |-> finalDesc,
                                                       images |-> imgs,
                                                       items |-> libraryItems]])
                    /\ UNCHANGED <<analysisResult, hasKey>>

\* handleSubmit(overrideDescription) up to the await, run by a render whose
\* closure holds imgs as images; libView is isLibraryView as its caller leaves it
handleSubmit(finalDesc, imgs, libView, apiKey) ==
    IF trim(finalDesc) = <<>> /\ Len(imgs) = 0
    THEN /\ errorMsg' = ValidationMsg
         /\ isLibraryView' = libView
         /\ lastOutcome' = Refused
         /\ UNCHANGED <<appState, analysisResult, hasKey, tasks, submitted, writer>>
    ELSE LET g == generateWithRetry(variant,
                                    RequestOf(variant, finalDesc, ApiImages(imgs),
                                              KbContext(variant, libraryItems)),
                                    RetriesOf(variant), InitialDelay, apiKey)
         IN /\ submitted < MaxSubmits
            /\ submitted' = submitted + 1
            /\ isLibraryView' = FALSE
            /\ IF g.pc = "thrown"
               THEN /\ SubmitContinues(submitted + 1, g)
                    /\ UNCHANGED tasks
               ELSE /\ appState' = "ANALYZING"
                    /\ errorMsg' = NoMsg
                    /\ writer' = 0
                    /\ lastOutcome' = NoOutcome
                    /\ tasks' = Append(tasks, [token |-> submitted + 1, g |-> g,
                                             args |-> [description |-> finalDesc,
                                                       images |-> imgs,
                                                       items |-> libraryItems]])
                    /\ UNCHANGED <<analysisResult, hasKey>>

\* whether process.env.API_KEY can be empty when generateWithRetry reads it
KeyStates(v) == IF v = "App" THEN BOOLEAN ELSE {TRUE}

\* the main screen is rendered (the gate screen replaces it while !hasKey)
FormShown == hasKey /\ viewMode = "diagnose" /\ appState \in {"IDLE", "ERROR"}

ResultShown == hasKey /\ viewMode = "diagnose" /\ appState = "SUCCESS" /\ analysisResult # NoResult

\* onChange of the textarea
TypeDescription ==
    /\ FormShown
    /\ \E text \in TypedDescriptions : description' = text
    /\ UNCHANGED <<variant, retryVars, rowVars, renderVars, loadingImages, libraryVars, appState, viewMode, hasKey, images,
                   analysisResult, isLibraryView, tasks, submitted, writer, lastOutcome>>

\* the highest number among the files attached or being read, 0 for none
LastFile == 
    LET used == loadingImages \cup {images[j] : j \in 1..Len(images)}
    IN IF used = {} THEN 0 ELSE CHOOSE m \in used : \A u \in used : u <= m

\* handleImageSelect on a selection of k image files: one FileReader is
\* started per file, in selection order (files are numbered on from the last)
handleImageSelect(k, cap) ==
    /\ FormShown
    /\ LastFile + k <= cap
    /\ loadingImages' = loadingImages \cup {f \in ImageFiles(cap) : LastFile < f /\ f <= LastFile + k}
    /\ UNCHANGED <<appState, viewMode, hasKey, description, images, analysisResult,
                   isLibraryView, tasks, submitted, writer, lastOutcome, libraryVars>>

\* reader.onloadend of one of the files: setImages(prev => [...prev, img])
onloadend(file) ==
    /\ file \in loadingImages
    /\ loadingImages' = loadingImages \ {file}
    /\ images' = Append(images, file)
    /\ UNCHANGED <<appState, viewMode, hasKey, description, analysisResult,
                   isLibraryView, tasks, submitted, writer, lastOutcome, libraryVars>>

\* the user picks one image file
SelectImage ==
    /\ handleImageSelect(1, MaxImages)
    /\ UNCHANGED <<variant, retryVars, rowVars, renderVars>>

ImageLoaded ==
    /\ \E file \in loadingImages : onloadend(file)
    /\ UNCHANGED <<variant, retryVars, rowVars, renderVars>>

removeImage ==
    /\ FormShown
    /\ \E id \in {images[j] : j \in 1..Len(images)} :
          /\ \E j \in 1..Len(images) : images[j] = id
          /\ images' = SelectSeq(images, LAMBDA img : img # id)
    /\ UNCHANGED <<variant, retryVars, rowVars, renderVars, loadingImages, libraryVars, appState, viewMode, hasKey, description,
                   analysisResult, isLibraryView, tasks, submitted, writer, lastOutcome>>

\* the submit button of the form (disabled on blank input in part_002)
ClickSubmit ==
    /\ FormShown
    /\ variant = "P2" => ~(trim(description) = <<>> /\ Len(images) = 0)
    /\ \E apiKey \in KeyStates(variant) :
          handleSubmit(description, images, isLibraryView, apiKey)
    /\ UNCHANGED <<variant, retryVars, rowVars, renderVars, loadingImages, viewMode, description, images,
                   libraryItems, reading, lastImport>>

\* resetApp without its setAppState(AppState.IDLE)
resetApp_KeepsAppState ==
    /\ appState' = appState
    /\ analysisResult' = NoResult
    /\ images' = <<>>
    /\ description' = <<>>
    /\ isLibraryView' = FALSE
    /\ writer' = 0
    /\ lastOutcome' = NoOutcome

resetApp ==
    /\ appState' = "IDLE"
    /\ analysisResult' = NoResult
    /\ images' = <<>>
    /\ description' = <<>>
    /\ isLibraryView' = FALSE
    /\ writer' = 0
    /\ lastOutcome' = NoOutcome

\* click on the header logo: setViewMode('diagnose'); resetApp()
HeaderClick ==
    /\ hasKey
    /\ viewMode' = "diagnose"
    /\ resetApp
    /\ UNCHANGED <<variant, retryVars, rowVars, renderVars, loadingImages, libraryVars, hasKey, tasks, submitted>>

\* the "new diagnosis" button of the result view
ClickReset ==
    /\ ResultShown
    /\ resetApp
    /\ UNCHANGED <<variant, retryVars, rowVars, renderVars, loadingImages, libraryVars, viewMode, hasKey, tasks, submitted>>

\* the two tab buttons of the header
SwitchView ==
    /\ hasKey
    /\ \E mode \in {"diagnose", "library"} : viewMode' = mode
    /\ UNCHANGED <<variant, retryVars, rowVars, renderVars, loadingImages, libraryVars, appState, hasKey, description, images,
                   analysisResult, isLibraryView, tasks, submitted, writer, lastOutcome>>

ArchiveOf(v, item) ==
    [diagnosis |-> IF v = "P2" THEN "Library Archive" ELSE "Archive",
     rawText   |-> [name |-> item.name, description |-> item.description,
                    analysis |-> item.analysis],
     sources   |-> <<>>]

selectLibraryItem(item) ==
    /\ description' = item.description
    /\ viewMode' = "diagnose"
    /\ images' = IF variant \in {"P1", "P2"} THEN <<>> ELSE images
    /\ IF ~Falsy(item.analysis)
       THEN /\ analysisResult' = ArchiveOf(variant, item)
            /\ appState' = "SUCCESS"
            /\ isLibraryView' = TRUE
            /\ writer' = 0
            /\ lastOutcome' = NoOutcome
            /\ UNCHANGED <<errorMsg, hasKey, tasks, submitted>>
       ELSE IF variant = "P2"
            THEN /\ appState' = "IDLE"
                 /\ analysisResult' = NoResult
                 /\ isLibraryView' = FALSE
                 /\ writer' = 0
                 /\ lastOutcome' = NoOutcome
                 /\ UNCHANGED <<errorMsg, hasKey, tasks, submitted>>
            ELSE \E apiKey \in KeyStates(variant) :
                    handleSubmit(item.description, images, isLibraryView, apiKey)

\* click on a card of the library list
SelectItem ==
    /\ LibraryShown
    /\ \E n \in 1..Len(libraryItems) : selectLibraryItem(libraryItems[n])
    /\ UNCHANGED <<variant, retryVars, rowVars, renderVars, loadingImages, libraryItems, reading, lastImport>>

\* the re-analyse button of part_002, shown on an archive result
handleReAnalyze ==
    /\ variant = "P2"
    /\ ResultShown
    /\ isLibraryView
    /\ handleSubmit(description, images, FALSE, TRUE)
    /\ UNCHANGED <<variant, retryVars, rowVars, renderVars, loadingImages, viewMode, description, images,
                   libraryItems, reading, lastImport>>

\* handleOpenKeySelector, from the gate screen
handleOpenKeySelector ==
    /\ variant \in {"App", "P1"}
    /\ ~hasKey
    /\ hasKey' = TRUE
    /\ errorMsg' = IF variant = "App" THEN NoMsg ELSE errorMsg
    /\ UNCHANGED <<variant, retryVars, rowVars, renderVars, loadingImages, appState, viewMode, description, images,
                   analysisResult, isLibraryView, tasks, submitted, writer, lastOutcome,
                   libraryItems, reading, lastImport>>

\* generateWithRetry of the k-th pending invocation moves from g to g2; when
\* it has returned or thrown, handleSubmit resumes after its await
TaskMoves(k, g2) ==
    /\ IF g2.pc \in {"returned", "thrown"}
       THEN /\ tasks' = RemoveAt(tasks, k)
            /\ SubmitContinues(tasks[k].token, g2)
       ELSE /\ tasks' = [tasks EXCEPT ![k].g = g2]
            /\ UNCHANGED <<appState, analysisResult, errorMsg, hasKey, writer, lastOutcome>>
    /\ UNCHANGED <<variant, retryVars, rowVars, renderVars, loadingImages, viewMode, description, images, isLibraryView,
                   submitted, libraryItems, reading, lastImport>>

ServiceResolves ==
    \E k \in 1..Len(tasks) :
        /\ tasks[k].g.pc = "calling"
        /\ \E r \in AppResponses : TaskMoves(k, OnResolve(tasks[k].g, r))

ServiceRejects ==
    \E k \in 1..Len(tasks) :
        /\ tasks[k].g.pc = "calling"
        /\ \E e \in AppErrors : TaskMoves(k, OnReject(variant, tasks[k].g, e))

BackoffElapses ==
    \E k \in 1..Len(tasks) :
        /\ tasks[k].g.pc = "sleeping"
        /\ TaskMoves(k, OnTimer(variant, tasks[k].g))

\* rows of a library imported before the diagnosis flow is exercised
LibraryRows ==
    << Obj(<<[key |-> "name", value |-> Str(<<"a">>)],
             [key |-> "description", value |-> Str(<<" ", "b", " ">>)],
             [key |-> "solution", value |-> Str(<<"a">>)]>>),
       Obj(<<[key |-> "Issue", value |-> Str(<<"a">>)]>>) >>

(***************************************************************************)
(* Specification of the application: every sequence of user actions and    *)
(* of outcomes of the outbound calls, up to MaxSubmits analysis requests.  *)
(* It starts from the mounted component (the key check of the mount effect *)
(* done), with no library or with the library that importing LibraryRows   *)
(* leaves (a state SpecImport reaches).                                    *)
(***************************************************************************)
InitApp ==
    /\ variant \in Variants
    /\ RetryIdle
    /\ RowIdle
    /\ RenderIdle
    /\ appState = "IDLE"
    /\ viewMode = "diagnose"
    /\ hasKey \in (IF variant \in {"App", "P1"} THEN BOOLEAN ELSE {TRUE})
    /\ description = <<>>
    /\ images = <<>>
    /\ loadingImages = {}
    /\ analysisResult = NoResult
    /\ errorMsg = NoMsg
    /\ isLibraryView = FALSE
    /\ libraryItems \in {<<>>, ItemsOf(variant, LibraryRows)}
    /\ reading = NoFile
    /\ tasks = <<>>
    /\ submitted = 0
    /\ writer = 0
    /\ lastOutcome = NoOutcome
    /\ lastImport = NoImport

NextApp ==
    \/ TypeDescription
    \/ SelectImage
    \/ ImageLoaded
    \/ removeImage
    \/ ClickSubmit
    \/ HeaderClick
    \/ ClickReset
    \/ SwitchView
    \/ SelectItem
    \/ handleReAnalyze
    \/ handleOpenKeySelector
    \/ ServiceResolves
    \/ ServiceRejects
    \/ BackoffElapses
    \/ ClearLibrary

SpecApp == InitApp /\ [][NextApp]_vars

(***************************************************************************)
(* Specification of submissions and their outcomes: the user types,        *)
(* submits and resets (no library, no images) while the outbound calls     *)
(* resolve or reject and the backoff timers fire.  In SpecSubmitFair the   *)
(* calls and timers are scheduled: a pending call eventually resolves or   *)
(* rejects (the promise of ai.models.generateContent settles) and a        *)
(* started backoff timer eventually fires (setTimeout).  Nothing is        *)
(* assumed of the user.                                                    *)
(***************************************************************************)
InitSubmit ==
    /\ InitApp
    /\ libraryItems = <<>>

NextSubmit ==
    \/ TypeDescription
    \/ ClickSubmit
    \/ HeaderClick
    \/ ClickReset
    \/ handleOpenKeySelector
    \/ ServiceResolves
    \/ ServiceRejects
    \/ BackoffElapses

SpecSubmit == InitSubmit /\ [][NextSubmit]_vars

SpecSubmitFair ==
    /\ SpecSubmit
    /\ WF_vars(ServiceResolves \/ ServiceRejects)
    /\ WF_vars(BackoffElapses)

(***************************************************************************)
(* Specification of request assembly: the user types, picks up to MaxFiles *)
(* image files (the readers finishing in any order), removes images,       *)
(* resets and submits from the form, from a library card or by the         *)
(* re-analyse button; the outbound calls stay pending.                     *)
(***************************************************************************)
InitRequest ==
    /\ variant \in Variants
    /\ RetryIdle
    /\ RowIdle
    /\ RenderIdle
    /\ appState = "IDLE"
    /\ viewMode = "diagnose"
    /\ hasKey = TRUE
    /\ description = <<>>
    /\ images = <<>>
    /\ loadingImages = {}
    /\ analysisResult = NoResult
    /\ errorMsg = NoMsg
    /\ isLibraryView = FALSE
    /\ libraryItems \in {<<>>, ItemsOf(variant, LibraryRows)}
    /\ reading = NoFile
    /\ tasks = <<>>
    /\ submitted = 0
    /\ writer = 0
    /\ lastOutcome = NoOutcome
    /\ lastImport = NoImport

\* the user picks one or more image files at once
SelectImages ==
    /\ \E k \in 1..MaxFiles : handleImageSelect(k, MaxFiles)
    /\ UNCHANGED <<variant, retryVars, rowVars, renderVars>>

NextRequest ==
    \/ TypeDescription
    \/ SelectImages
    \/ ImageLoaded
    \/ removeImage
    \/ ClickSubmit
    \/ HeaderClick
    \/ SwitchView
    \/ SelectItem
    \/ handleReAnalyze

SpecRequest == InitRequest /\ [][NextRequest]_vars

(***************************************************************************)
(* MarkdownRenderer: the text is split into lines and every line is mapped *)
(* to one element.  Text is a sequence of characters; an element is a      *)
(* record of its tag, its bold label (list items only) and its children.   *)
(***************************************************************************)
startsWith(s, prefix) == Len(s) >= Len(prefix) /\ SubSeq(s, 1, Len(prefix)) = prefix

endsWith(s, suffix) ==
    Len(s) >= Len(suffix) /\ SubSeq(s, Len(s) - Len(suffix) + 1, Len(s)) = suffix

\* position of the first occurrence of pat in s at or after from, 0 if none
indexOf(s, pat, from) ==
    LET hits == {p \in from..(Len(s) - Len(pat) + 1) : SubSeq(s, p, p + Len(pat) - 1) = pat}
    IN IF hits = {} THEN 0 ELSE CHOOSE p \in hits : \A q \in hits : p <= q

DropFirst(s, n) == SubSeq(s, n + 1, Len(s))

\* s.replace(pat, '') for a string pattern: the first occurrence goes
replace(s, pat) ==
    LET p == indexOf(s, pat, 1)
    IN IF p = 0 THEN s ELSE SubSeq(s, 1, p - 1) \o DropFirst(s, p + Len(pat) - 1)

\* s.replace(/^pat/, '')
replaceAtStart(s, pat) == IF startsWith(s, pat) THEN DropFirst(s, Len(pat)) ELSE s

\* s.split(sep) for a string separator
RECURSIVE split(_, _)
split(s, sep) ==
    LET p == indexOf(s, sep, 1)
    IN IF p = 0 THEN <<s>>
       ELSE <<SubSeq(s, 1, p - 1)>> \o split(DropFirst(s, p + Len(sep) - 1), sep)

Header2Mark == <<"#", "#", " ">>
Header3Mark == <<"#", "#", "#", " ">>
StarBoldMark == <<"*", " ", "*", "*">>
DashBoldMark == <<"-", " ", "*", "*">>
LabelEnd == <<"*", "*", ":">>
StarMark == <<"*", " ">>
DashMark == <<"-", " ">>
BoldMark == <<"*", "*">>

\* s.split(/(\*\*.*?\*\*)/g): the text around the bold spans and the spans
RECURSIVE splitBold(_)
splitBold(s) ==
    LET open == indexOf(s, BoldMark, 1)
        close == IF open = 0 THEN 0 ELSE indexOf(s, BoldMark, open + 2)
    IN IF close = 0 THEN <<s>>
       ELSE <<SubSeq(s, 1, open - 1), SubSeq(s, open, close + 1)>>
                \o splitBold(DropFirst(s, close + 1))

Plain(text) == [text |-> text, emphasized |-> FALSE]
Strong(text) == [text |-> text, emphasized |-> TRUE]

\* the callback of parts.map in the paragraph
renderPart(part) ==
    IF startsWith(part, BoldMark) /\ endsWith(part, BoldMark)
    THEN Strong(SubSeq(part, 3, Len(part) - 2))
    ELSE Plain(part)

NoLabel == <<>>
Element(tag, label, children) == [tag |-> tag, label |-> label, children |-> children]

\* the callback of lines.map
renderLine(line) ==
    LET cleanLine == replaceAtStart(replaceAtStart(line, StarBoldMark), DashBoldMark)
        cut == indexOf(cleanLine, LabelEnd, 1)
        parts == splitBold(line)
    IN IF startsWith(line, Header2Mark)
         THEN Element("h2", NoLabel, <<Plain(replace(line, Header2Mark))>>)
       ELSE IF startsWith(line, Header3Mark)
         THEN Element("h3", NoLabel, <<Plain(replace(line, Header3Mark))>>)
       ELSE IF (startsWith(line, StarBoldMark) \/ startsWith(line, DashBoldMark)) /\ cut # 0
         THEN Element("li", SubSeq(cleanLine, 1, cut - 1) \o <<":">>,
                      <<Plain(DropFirst(cleanLine, cut + Len(LabelEnd) - 1))>>)
       ELSE IF startsWith(trim(line), StarMark) \/ startsWith(trim(line), DashMark)
         THEN Element("li", NoLabel,
                      <<Plain(replaceAtStart(replaceAtStart(line, StarMark), DashMark))>>)
       ELSE IF trim(line) = <<>>
         THEN Element("br", NoLabel, <<>>)
       ELSE Element("p", NoLabel, [j \in 1..Len(parts) |-> renderPart(parts[j])])

\* a renderer that leaves blank lines out
MarkdownRenderer_SkipsBlank(text) ==
    LET lines == split(text, <<"\n">>)
        IsShown(line) == trim(line) # <<>>
        shown == SelectSeq(lines, IsShown)
    IN [j \in 1..Len(shown) |-> renderLine(shown[j])]

MarkdownRenderer(text) ==
    LET lines == split(text, <<"\n">>)
    IN [j \in 1..Len(lines) |-> renderLine(lines[j])]

(***************************************************************************)
(* Specification of the renderer: every text made of up to MaxPieces       *)
(* pieces (the markers of the subset, a letter, a space, a line break).    *)
(***************************************************************************)
Pieces ==
    { Header2Mark, Header3Mark, StarBoldMark, DashBoldMark, LabelEnd, StarMark, DashMark,
      BoldMark, <<" ">>, <<"a">>, <<"\n">> }

RECURSIVE Flatten(_)
Flatten(ps) == IF ps = <<>> THEN <<>> ELSE Head(ps) \o Flatten(Tail(ps))

Contents == { Flatten(ps) : ps \in UNION { [1..n -> Pieces] : n \in 0..MaxPieces } }

\* a text with a header, a bold-led bullet, a blank line and a paragraph:
\* "## Title", "- **A**: b", "", "plain **bold** text"
ExampleText ==
    << "#", "#", " ", "T", "i", "t", "l", "e", "\n", "-", " ", "*", "*", "A",
       "*", "*", ":", " ", "b", "\n", "\n", "p", "l", "a", "i", "n", " ", "*",
       "*", "b", "o", "l", "d", "*", "*", " ", "t", "e", "x", "t" >>

InitRender ==
    /\ variant = "P2"
    /\ RetryIdle
    /\ RowIdle
    /\ AppMounted
    /\ content \in Contents \cup {ExampleText}
    /\ blocks = <<>>

Render ==
    /\ blocks = <<>>
    /\ blocks' = MarkdownRenderer(content)
    /\ UNCHANGED <<variant, retryVars, rowVars, appVars, content>>

NextRender == Render

SpecRender == InitRender /\ [][NextRender]_vars

(***************************************************************************)
(* Properties of generateWithRetry (checked under SpecRetry).              *)
(***************************************************************************)
\* a failure the revision retries: recognised as a network error and not
\* as an authorisation error
Transient(v, e) == isNetworkError(v, e) /\ ~isAuthError(v, e)

AllTransient == \A j \in 1..Len(inv.errs) : Transient(variant, inv.errs[j])

\* d, 2d, 4d, ..., 2^(k-1) d
Backoff(k, d) == [j \in 1..k |-> d * 2^(j - 1)]

SameRequestEachTime == \A j \in 1..Len(inv.sent) : inv.sent[j] = inv.req

\* C1: after k < retries transient failures of the outbound call the wrapper
\* is still trying (it has not given up), and when attempt k+1 succeeds it returns that result
\* after exactly k retries: k+1 outbound calls, all carrying the same
\* request, and sleeps of d, 2d, ..., 2^(k-1) d between them.
C1_RetryThenSuccess ==
    LET k == Len(inv.errs)
    IN /\ (Len(inv.sent) > 0 /\ AllTransient /\ k < inv.retries) =>
             inv.pc \in {"calling", "sleeping", "returned"}
       /\ inv.pc = "returned" =>
             /\ inv.out.kind = "ok" /\ inv.out.response \in Responses
             /\ AllTransient /\ k < inv.retries
             /\ Len(inv.sent) = k + 1
             /\ SameRequestEachTime
             /\ inv.slept = Backoff(k, InitialDelay)

C1_Witness ==
    /\ inv.pc = "returned"
    /\ Len(inv.errs) = 2
    /\ inv.slept = <<InitialDelay, 2 * InitialDelay>>
    /\ Len(inv.sent) = 3

\* every one of the `retries` attempts failed with a transient failure
ExhaustedByTransient ==
    /\ Len(inv.errs) = inv.retries
    /\ AllTransient

EndedAt(j) ==
    /\ j = Len(inv.errs)
    /\ inv.pc = "thrown"
    /\ Len(inv.sent) = j
    /\ Len(inv.slept) = j - 1

\* the authorisation signatures the claim lists
AuthSignature(e) ==
    \/ includes(e.message, "Requested entity was not found")
    \/ includes(e.message, "API key not valid")
    \/ e.status \in {"401", "403"}

RecognisedAuth(v, e) ==
    \/ v = "App" /\ AuthSignature(e)
    \/ v = "P1" /\ includes(e.message, "Requested entity was not found")

Unclassified(v, e) == ~isAuthError(v, e) /\ ~isNetworkError(v, e)

\* C4: a failure that is neither an authorisation nor a transient failure is
\* thrown to the caller unchanged at once: no sleep follows it and no further
\* attempt is made, however many attempts remain.
C4_UnclassifiedAborts ==
    \A j \in 1..Len(inv.errs) :
        Unclassified(variant, inv.errs[j]) =>
            EndedAt(j) /\ inv.out.error = inv.errs[j]

C4_Witness ==
    /\ Len(inv.errs) = 2
    /\ Unclassified(variant, inv.errs[2])
    /\ inv.retries = 4
    /\ inv.pc = "thrown"

(***************************************************************************)
(* Properties of the map callback of processLibraryData (under SpecRow).   *)
(***************************************************************************)
\* positions of the row's keys that match, ignoring case, an alias of the list
AliasPositions(item, keys) ==
    {j \in 1..Len(item.fields) : toLowerCase(item.fields[j].key) \in Range(keys)}

\* the string form of the value at position j of the row, trimmed
TrimmedAt(item, j) == trim(String(item.fields[j].value))

Normalised == rowOut # NoRow

\* C8 (as claimed): a row with a fault-description alias key, in any letter
\* case, yields a record whose description is the trimmed value under that key.
C8_EveryAliasKeyYieldsRecord ==
    Normalised =>
        \A j \in AliasPositions(row, DescKeys(variant)) :
            rowOut.kind = "item" /\ rowOut.description = TrimmedAt(row, j)

\* C8 (amended): a row whose only fault-description alias key (any letter
\* case) holds a string yields a record whose description is that string
\* trimmed when the trimmed string is non-empty, and no record when it is
\* empty; and whatever the row, the description of a produced record is the
\* non-empty trimmed string form of the value under one of its alias keys.
C8_DescriptionIsTrimmedValue ==
    Normalised =>
        LET P == AliasPositions(row, DescKeys(variant))
        IN /\ \A j \in P :
                 (P = {j} /\ row.fields[j].value.t = "string") =>
                     IF TrimmedAt(row, j) = <<>>
                     THEN rowOut = NullItem
                     ELSE rowOut.kind = "item" /\ rowOut.description = TrimmedAt(row, j)
           /\ rowOut.kind = "item" =>
                 /\ rowOut.description # <<>>
                 /\ \E j \in P : rowOut.description = TrimmedAt(row, j)

C8_Witness ==
    /\ Normalised
    /\ row.fields = <<[key |-> "remark", value |-> Str(<<"a">>)],
                      [key |-> "Issue", value |-> Str(<<" ", "b", " ">>)]>>
    /\ rowOut.kind = "item"
    /\ rowOut.description = <<"b">>

\* position in the alias list of the alias a key matches (ignoring case)
AliasRank(keys, k) == CHOOSE n \in 1..Len(keys) : keys[n] = toLowerCase(k)

\* resolution by list priority: among the row's alias keys, the one whose
\* alias comes first in the list; Undefined when the row has none
ByListPriority(item, keys) ==
    LET P == AliasPositions(item, keys)
    IN IF P = {} THEN Undefined
       ELSE LET j == CHOOSE a \in P : \A b \in P :
                         AliasRank(keys, item.fields[a].key) <= AliasRank(keys, item.fields[b].key)
            IN TrimmedAt(item, j)

\* the three resolved fields as they show in the callback's result
ShowsFields(out, desc, name, analysis) ==
    IF Falsy(desc) THEN out = NullItem
    ELSE /\ out.kind = "item"
         /\ out.description = desc
         /\ out.name = OrElse(name, UnknownDevice)
         /\ out.analysis = analysis

ByListPriorityTruthy(item, keys) ==
    LET P == {j \in AliasPositions(item, keys) : Truthy(item.fields[j].value)}
    IN IF P = {} THEN Undefined
       ELSE LET j == CHOOSE a \in P : \A b \in P :
                         AliasRank(keys, item.fields[a].key) <= AliasRank(keys, item.fields[b].key)
            IN TrimmedAt(item, j)

\* resolution by the row's own key order: the first key that is an alias
ByKeyOrder(item, keys) ==
    LET P == AliasPositions(item, keys)
    IN IF P = {} THEN Undefined
       ELSE TrimmedAt(item, CHOOSE a \in P : \A b \in P : a <= b)

C7_DescriptionNeverEmpty ==
    \A j \in 1..Len(libraryItems) :
        /\ libraryItems[j].kind = "item"
        /\ libraryItems[j].description # Undefined
        /\ Len(libraryItems[j].description) > 0

C7_Witness ==
    /\ lastImport.called
    /\ Len(lastImport.data) = 2
    /\ Len(libraryItems) = 1
    /\ libraryItems[1].description = <<"b">>

\* the fault description a row resolves to, by the resolution of its revision
ResolvedDescription(v, item) ==
    IF v \in {"P1", "P2"}
    THEN ByListPriorityTruthy(item, DescKeys(v))
    ELSE ByKeyOrder(item, DescKeys(v))

LacksAlias(v, item) == AliasPositions(item, DescKeys(v)) = {}

\* the positions of the rows of a batch that resolve to a non-empty description
Resolving(v, data) == {j \in 1..Len(data) : ~Falsy(ResolvedDescription(v, data[j]))}

\* processLibraryData has just run on an array of row objects
BatchProcessed == lastImport.called /\ ~MapThrows(lastImport.data)

\* C9: after processLibraryData on a batch of row objects, no record stems
\* from a row that has no fault-description alias key; the other rows are
\* still normalised, the records being exactly those of the rows that
\* resolve to a non-empty description, in row order; and no error is set for
\* a skipped row (the only message processLibraryData ever sets being the
\* one of part_002 for a batch in which no row at all resolves).
C9_RowsWithoutAliasSkipped ==
    BatchProcessed =>
        LET data == lastImport.data
            kept == Resolving(variant, data)
        IN IF kept = {} /\ variant = "P2"
           THEN errorMsg = NoValidDataMsg
           ELSE /\ errorMsg = NoMsg
                /\ Len(libraryItems) = Cardinality(kept)
                /\ \A j \in 1..Len(data) :
                      LacksAlias(variant, data[j]) =>
                          ~\E n \in 1..Len(libraryItems) : libraryItems[n].id = j - 1
                /\ \A j \in kept :
                      \E n \in 1..Len(libraryItems) :
                          /\ libraryItems[n].kind = "item"
                          /\ libraryItems[n].id = j - 1
                          /\ libraryItems[n].description = ResolvedDescription(variant, data[j])
                /\ \A m, n \in 1..Len(libraryItems) :
                      m < n => libraryItems[m].id < libraryItems[n].id

C9_Witness ==
    /\ BatchProcessed
    /\ Len(lastImport.data) = 2
    /\ LacksAlias(variant, lastImport.data[1])
    /\ Len(libraryItems) = 1
    /\ libraryItems[1].id = 1
    /\ libraryItems[1].description = <<"a">>
    /\ errorMsg = NoMsg

(***************************************************************************)
(* Properties of the diagnosis flow (SpecApp).                             *)
(***************************************************************************)
\* the requests still pending in generateWithRetry (call or backoff wait)
InFlight == Len(tasks)

\* C5: when a new submission is started while an earlier analysis call is
\* pending, the earlier response never overwrites the newer one: once no
\* call is pending, the analysisResult / appState / errorMsg written by a
\* response are those of the last-submitted request.
C5_LastSubmittedWins ==
    (InFlight = 0 /\ writer # 0) => writer = submitted

\* C6: in every reachable state, under any sequence of user actions, at most
\* one analysis request is in flight (pending in generateWithRetry,
\* including its backoff waits).
C6_AtMostOneInFlight == InFlight <= 1

\* the name and the solution text a row resolves to, by the resolution of its revision
ResolvedName(v, item) ==
    IF v \in {"P1", "P2"}
    THEN ByListPriorityTruthy(item, NameKeys(v))
    ELSE ByKeyOrder(item, NameKeys(v))

ResolvedAnalysis(v, item) ==
    IF v \in {"P1", "P2"}
    THEN ByListPriorityTruthy(item, AnalysisKeys(v))
    ELSE ByKeyOrder(item, AnalysisKeys(v))

\* the position in the batch of the n-th row that resolves
NthResolving(v, data, n) ==
    CHOOSE j \in Resolving(v, data) :
        Cardinality({k \in Resolving(v, data) : k <= j}) = n

\* a successful import: processLibraryData ran on row objects and did not
\* end in the no-valid-data message of part_002
ImportSucceeded ==
    /\ BatchProcessed
    /\ ~(variant = "P2" /\ Resolving(variant, lastImport.data) = {})

\* C11: after any successful import the working set is exactly the records
\* normalised from that import's rows, in row order: the collection is
\* replaced and no record of an earlier import remains.
C11_ImportReplacesWorkingSet ==
    ImportSucceeded =>
        LET data == lastImport.data
        IN /\ Len(libraryItems) = Cardinality(Resolving(variant, data))
           /\ \A n \in 1..Len(libraryItems) :
                 LET j == NthResolving(variant, data, n)
                 IN /\ libraryItems[n].id = j - 1
                    /\ ShowsFields(libraryItems[n],
                                   ResolvedDescription(variant, data[j]),
                                   ResolvedName(variant, data[j]),
                                   ResolvedAnalysis(variant, data[j]))

C11_Witness ==
    /\ ImportSucceeded
    /\ lastImport.replacing
    /\ Len(lastImport.data) = 1
    /\ Len(libraryItems) = 1
    /\ libraryItems[1].description = <<"a">>

\* the last step ended without calling processLibraryData, for the reason why
ImportSkipped(why) ==
    /\ ~lastImport.called
    /\ "why" \in DOMAIN lastImport
    /\ lastImport.why = why

ParseErrorMsgs ==
    {ParseErrorMsg(v, kind, cause) : v \in Variants, kind \in {"json", "excel"},
                                     cause \in {"syntax", "unreadable"}}

\* C12: when an import fails with a hard parse failure (content JSON.parse or
\* XLSX.read rejects), a parse error is shown and the working set is exactly
\* what it was before the import: neither cleared nor partially replaced.
C12_ParseFailureKeepsWorkingSet ==
    ImportSkipped("garbage") =>
        /\ libraryItems = lastImport.before
        /\ errorMsg \in ParseErrorMsgs

C12_Witness ==
    /\ ImportSkipped("garbage")
    /\ Len(libraryItems) = 2
    /\ errorMsg = ParseErrorMsg(variant, "excel", "unreadable")

\* C13: when the imported file parses to an array in which no row has a
\* resolvable fault description, a user-visible error is set and the prior
\* working set is left untouched, not replaced by the empty set.
C13_NoValidRecordsReported ==
    (BatchProcessed /\ Resolving(variant, lastImport.data) = {}) =>
        /\ errorMsg # NoMsg
        /\ lastImport.replacing => Len(libraryItems) > 0

\* C14: choosing a file whose extension is none of .json, .xlsx, .xls is
\* rejected: a user-visible error message is set, no normalisation runs and
\* the working set is unchanged.
C14_UnsupportedExtensionRejected ==
    ImportSkipped("unsupported") =>
        /\ errorMsg # NoMsg
        /\ reading = NoFile
        /\ libraryItems = lastImport.before

\* C15: JSON content that parses but is not an array is reported: an error
\* message is set before any normalisation, processLibraryData is not
\* called and the working set is unchanged.
C15_NonArrayJsonReported ==
    ImportSkipped("not an array") =>
        /\ errorMsg # NoMsg
        /\ libraryItems = lastImport.before

(***************************************************************************)
(* Coercion of resolved values (SpecRow).                                  *)
(***************************************************************************)
\* the row has exactly one key matching the alias list, holding a number or
\* a boolean: the position of that key, 0 otherwise
NonStringAt(item, keys) ==
    LET P == AliasPositions(item, keys)
    IN IF /\ Cardinality(P) = 1
          /\ \A j \in P : item.fields[j].value.t \in {"number", "boolean"}
       THEN CHOOSE j \in P : TRUE
       ELSE 0

\* C16: resolved values are coerced to trimmed strings whatever their type:
\* a row whose matched key holds a number or a boolean, 0 and false
\* included, resolves the field to the value's string form and is not
\* treated as lacking the field.
C16_NonStringValuesCoerced ==
    Normalised =>
        LET d == NonStringAt(row, DescKeys(variant))
            n == NonStringAt(row, NameKeys(variant))
            a == NonStringAt(row, AnalysisKeys(variant))
        IN /\ d # 0 => /\ rowOut.kind = "item"
                       /\ rowOut.description = TrimmedAt(row, d)
           /\ (n # 0 /\ rowOut.kind = "item") => rowOut.name = TrimmedAt(row, n)
           /\ (a # 0 /\ rowOut.kind = "item") => rowOut.analysis = TrimmedAt(row, a)

(***************************************************************************)
(* Properties of the assembled request (SpecRequest).                      *)
(***************************************************************************)
IsImagePart(part) == "inlineData" \in DOMAIN part
IsTextPart(part) == "text" \in DOMAIN part

\* the parts of the request of the k-th pending invocation
PartsOf(k) == tasks[k].g.req.parts

\* C17: a submission with n >= 0 images assembles exactly n + 1 parts: the n
\* image parts first, each with its own media type, in the order the user
\* picked the files (whatever the order in which their readers finished),
\* then exactly one text part.
C17_ImagePartsInUploadOrder ==
    \A k \in 1..Len(tasks) :
        LET parts == PartsOf(k)
            n == Len(tasks[k].args.images)
        IN /\ Len(parts) = n + 1
           /\ IsTextPart(parts[n + 1])
           /\ \A j \in 1..n :
                 /\ IsImagePart(parts[j])
                 /\ parts[j].inlineData.mimeType = MimeTypeOf(parts[j].inlineData.data)
           /\ \A i, j \in 1..n :
                 i < j => parts[i].inlineData.data < parts[j].inlineData.data

\* the text part of the request of the k-th pending invocation
TextOf(k) == PartsOf(k)[Len(PartsOf(k))].text

\* the pieces of the prompt between the knowledge-base heading and footing
KbSection(k) == SubSeq(TextOf(k), 5, Len(TextOf(k)) - 2)

\* what the solution line of a record shows
SolutionShown(item) ==
    IF item.analysis = Undefined \/ item.analysis = <<>>
    THEN Lit(NonePlaceholder)
    ELSE Txt(item.analysis)

\* C18: when the working set is non-empty the knowledge-base context of a
\* submission has one block per record, in working-set order, showing the
\* record's index counted from 1, its name, its description and its
\* solution (a fixed placeholder when there is none), consecutive blocks
\* being joined by a constant separator; when the working set is empty the
\* prompt has no knowledge-base section at all.
C18_KbContextBlocks ==
    \A k \in 1..Len(tasks) :
        LET items == tasks[k].args.items
            n == Len(items)
            text == TextOf(k)
            kb == KbSection(k)
        IN IF n = 0
           THEN /\ Len(text) = 4
                /\ \A j \in 1..Len(text) :
                      /\ "idx" \notin DOMAIN text[j]
                      /\ text[j] # Lit(Separator)
                      /\ text[j] # Lit(KbHead(variant))
           ELSE /\ Len(kb) = 9 * n - 1
                /\ \A i \in 1..n :
                      LET at == 9 * (i - 1)
                      IN /\ kb[at + 2] = Idx(i)
                         /\ kb[at + 4] = Txt(items[i].name)
                         /\ kb[at + 6] = Txt(items[i].description)
                         /\ kb[at + 8] = SolutionShown(items[i])
                         /\ i < n => kb[at + 9] = Lit(Separator)

\* a pending submission over two records, the second without a solution
C18_Witness ==
    \E k \in 1..Len(tasks) :
        /\ Len(tasks[k].args.items) = 2
        /\ tasks[k].args.items[1].analysis = <<"a">>
        /\ tasks[k].args.items[2].analysis = Undefined
        /\ KbSection(k)[8] = Txt(<<"a">>)
        /\ KbSection(k)[17] = Lit(NonePlaceholder)

(***************************************************************************)
(* Properties of MarkdownRenderer (SpecRender).                            *)
(***************************************************************************)
Rendered == blocks # <<>>

LineBreaks == {p \in 1..Len(content) : content[p] = "\n"}

\* position of the n-th line break of the text; 0 for n = 0 and one past the
\* end of the text for the line break after the last line
BreakAt(n) ==
    IF n = 0 THEN 0
    ELSE IF n > Cardinality(LineBreaks) THEN Len(content) + 1
    ELSE CHOOSE p \in LineBreaks : Cardinality({q \in LineBreaks : q <= p}) = n

\* the n-th line of the text
LineAt(n) == SubSeq(content, BreakAt(n - 1) + 1, BreakAt(n) - 1)

\* C19: the renderer returns as many blocks as the text has lines (one more
\* than its line breaks), and the i-th block is what the renderer returns
\* for the i-th line on its own.
C19_OneBlockPerLine ==
    Rendered =>
        /\ Len(blocks) = Cardinality(LineBreaks) + 1
        /\ \A n \in 1..Len(blocks) : <<blocks[n]>> = MarkdownRenderer(LineAt(n))

\* a three-line text with a blank line in the middle has been rendered
C19_Witness ==
    /\ Rendered
    /\ Cardinality(LineBreaks) = 2
    /\ LineAt(2) = <<>>
    /\ LineAt(1) # <<>>
    /\ Len(blocks) = 3
    /\ blocks[2].tag = "br"

\* the rules of the subset, as the markers a line starts with
IsHeader2(line) == startsWith(line, Header2Mark)
IsHeader3(line) == startsWith(line, Header3Mark)
IsBoldBullet(line) ==
    \E mark \in {StarBoldMark, DashBoldMark} :
        /\ startsWith(line, mark)
        /\ indexOf(DropFirst(line, Len(mark)), LabelEnd, 1) # 0
IsPlainBullet(line) == startsWith(line, StarMark) \/ startsWith(line, DashMark)
IsBlank(line) == \A p \in 1..Len(line) : line[p] \in {" ", "\t"}

\* the block type of the first rule that matches
TypeByPriority(line) ==
    CASE IsHeader2(line)     -> "header2"
      [] IsHeader3(line)     -> "header3"
      [] IsBoldBullet(line)  -> "bold bullet"
      [] IsPlainBullet(line) -> "plain bullet"
      [] IsBlank(line)       -> "blank"
      [] OTHER               -> "paragraph"

\* the block type of an element
TypeOf(block) ==
    CASE block.tag = "h2" -> "header2"
      [] block.tag = "h3" -> "header3"
      [] block.tag = "li" -> IF block.label # NoLabel THEN "bold bullet" ELSE "plain bullet"
      [] block.tag = "br" -> "blank"
      [] OTHER            -> "paragraph"

\* C20: every line is rendered as the block type of the first rule it
\* matches, in the order header2, header3, bold-led bullet, plain bullet,
\* blank, paragraph.
C20_FirstMatchingRule ==
    Rendered => \A n \in 1..Len(blocks) : TypeOf(blocks[n]) = TypeByPriority(LineAt(n))

(***************************************************************************)
(* Properties of the analysis result and of failure handling.              *)
(***************************************************************************)
\* a citation holding both a uri and a title
IsCitation(source) ==
    /\ "web" \in DOMAIN source
    /\ source.web.uri # ""
    /\ source.web.title # ""

\* C23: the citations of an analysis result are grounding entries that have
\* both a uri and a title; an entry missing either is dropped, so the list
\* holds no entry without a uri or a title and no empty placeholder.
C23_OnlyCompleteCitations ==
    analysisResult # NoResult =>
        \A j \in 1..Len(analysisResult.sources) : IsCitation(analysisResult.sources[j])

Chars_Title == <<"T", "i", "t", "l", "e">>
Chars_PlainSp == <<"p", "l", "a", "i", "n", " ">>
Chars_Bold == <<"b", "o", "l", "d">>
Chars_SpText == <<" ", "t", "e", "x", "t">>

\* the paragraph of the example: "plain " plain, "bold" emphasized, " text" plain
ExampleParagraph ==
    Element("p", NoLabel, <<Plain(Chars_PlainSp), Strong(Chars_Bold), Plain(Chars_SpText)>>)

\* C21: the example text is rendered as exactly four blocks, in order: the
\* header2 "Title", the list item of label "A" (shown with its colon) and
\* body "b", a blank, and the paragraph "plain " / "bold" emphasized /
\* " text".
C21_ExampleBlocks ==
    (Rendered /\ content = ExampleText) =>
        blocks = << Element("h2", NoLabel, <<Plain(Chars_Title)>>),
                    Element("li", <<"A", ":">>, <<Plain(<<"b">>)>>),
                    Element("br", NoLabel, <<>>),
                    ExampleParagraph >>

\* the bodies in which inline emphasis is to be resolved: the whole line of
\* a paragraph, the text after the marker of a plain bullet, the text after
\* the delimiter of a bold-led bullet
BodyOf(line) ==
    CASE TypeByPriority(line) = "bold bullet" ->
             LET rest == DropFirst(line, Len(StarBoldMark))
             IN DropFirst(rest, indexOf(rest, LabelEnd, 1) + Len(LabelEnd) - 1)
      [] TypeByPriority(line) = "plain bullet" -> DropFirst(line, Len(StarMark))
      [] OTHER -> line

\* the body split on the doubled marker, the segments at odd positions
\* (counted from 0) emphasized
SegmentsOf(body) ==
    LET parts == split(body, BoldMark)
    IN [j \in 1..Len(parts) |-> IF j % 2 = 0 THEN Strong(parts[j]) ELSE Plain(parts[j])]

\* C22: in every paragraph and every bullet the body is split on '**' and
\* exactly the segments at odd split positions are emphasized, no segment
\* holding a marker.
C22_EmphasisInBulletsAndParagraphs ==
    Rendered =>
        \A n \in 1..Len(blocks) :
            TypeByPriority(LineAt(n)) \in {"paragraph", "plain bullet", "bold bullet"}
                => blocks[n].children = SegmentsOf(BodyOf(LineAt(n)))

\* the transient signatures the claim lists: remote-procedure failure,
\* transport-layer error, an HTTP 5xx status, fetch or network error text,
\* an UNKNOWN status code
TransientSignature(e) ==
    \/ includes(e.message, "Rpc failed")
    \/ includes(e.message, "XHR error") \/ includes(e.message, "xhr error")
    \/ includes(e.message, "500") \/ e.status \in {"500", "502", "503"}
    \/ includes(e.message, "fetch") \/ includes(e.message, "network")
    \/ e.status = "UNKNOWN"

\* a sleep, and with it a further attempt, followed the failure at position j
RetriedAfter(j) == Len(inv.slept) >= j

\* C24: a failure with a transient signature and no authorisation signature
\* is retried whenever an attempt remains.
C24_TransientSignaturesRetried ==
    \A j \in 1..Len(inv.errs) :
        (TransientSignature(inv.errs[j]) /\ ~AuthSignature(inv.errs[j]) /\ j < inv.retries)
            => RetriedAfter(j)

\* the failure at position j carries an authorisation signature and a
\* transient signature
BothSignatures(j) == AuthSignature(inv.errs[j]) /\ TransientSignature(inv.errs[j])

Pending(token) == \E k \in 1..Len(tasks) : tasks[k].token = token

\* a running invocation has made between 1 and `retries` outbound calls
CallsWithinRetries ==
    \A k \in 1..Len(tasks) :
        /\ tasks[k].g.pc \in {"calling", "sleeping"}
        /\ 1 <= Len(tasks[k].g.sent)
        /\ Len(tasks[k].g.sent) <= tasks[k].g.retries

EveryInvocationEnds == \A token \in 1..MaxSubmits : Pending(token) ~> ~Pending(token)

AnalyzingEnds == (appState = "ANALYZING") ~> (appState \in {"SUCCESS", "ERROR"})

\* a step of handleSubmit that starts an invocation of generateWithRetry
Submits == submitted' = submitted + 1

\* the invocation started by this step has issued an outbound call
IssuesCall ==
    /\ Len(tasks') = Len(tasks) + 1
    /\ Len(tasks'[Len(tasks')].g.sent) >= 1

\* C26 (as claimed): every invocation of generateWithRetry makes at least one
\* outbound call.
C26_AtLeastOneCall == [][Submits => IssuesCall]_vars

\* C26 (amended): with calls and timers scheduled, every invocation of
\* generateWithRetry ends, with a result or a failure, having made at most
\* `retries` outbound calls and at least one, except that the App revision
\* fails at once with API_KEY_MISSING, before any call, when no key is
\* configured; and every submission that entered ANALYZING is eventually
\* followed by SUCCESS or ERROR.
C26_SubmissionsTerminate ==
    /\ []CallsWithinRetries
    /\ EveryInvocationEnds
    /\ AnalyzingEnds
    /\ [][(Submits /\ ~IssuesCall) =>
             /\ variant = "App"
             /\ UNCHANGED tasks
             /\ appState' = "ERROR"
             /\ hasKey' = FALSE
             /\ errorMsg' = ReauthoriseMsg]_vars

\* the last allowed attempt of an invocation is under way, a backoff sleep
\* having preceded each attempt but the first
C26_Witness ==
    \E k \in 1..Len(tasks) :
        /\ appState = "ANALYZING"
        /\ tasks[k].g.pc = "calling"
        /\ Len(tasks[k].g.sent) = tasks[k].g.retries
        /\ Len(tasks[k].g.slept) = tasks[k].g.retries - 1

(***************************************************************************)
(* Backoff sleeps of generateWithRetry (SpecRetry).                        *)
(***************************************************************************)
Ended == inv.pc \in {"returned", "thrown"}

\* C27 (as claimed): in every execution the number of sleeps is the number of
\* outbound attempts minus one.
C27_SleepsAreAttemptsMinusOne == Ended => Len(inv.slept) = Len(inv.sent) - 1

\* C27 (amended): a sleep occurs only between two outbound attempts: the
\* j-th sleep follows the failure of attempt j, which carries a transient
\* signature, and attempt j+1 follows it; an execution that made at least one
\* attempt ends with one sleep less than attempts, none after the last
\* attempt; the App revision without a key makes no attempt and no sleep.
C27_SleepsBetweenAttempts ==
    /\ inv.pc = "calling" => Len(inv.slept) = Len(inv.sent) - 1 /\ Len(inv.errs) = Len(inv.slept)
    /\ inv.pc = "sleeping" => Len(inv.slept) = Len(inv.sent) /\ Len(inv.errs) = Len(inv.slept)
                              /\ Len(inv.sent) < inv.retries
    /\ Ended =>
          IF Len(inv.sent) = 0
          THEN variant = "App" /\ inv.slept = <<>> /\ inv.out.error = Err("API_KEY_MISSING", "none")
          ELSE Len(inv.slept) = Len(inv.sent) - 1
    /\ \A j \in 1..Len(inv.slept) : TransientSignature(inv.errs[j])

\* three attempts and two sleeps, the last attempt having failed for good
C27_Witness ==
    /\ inv.pc = "thrown"
    /\ Len(inv.sent) = 3
    /\ Len(inv.slept) = 2
    /\ Len(inv.errs) = 3
    /\ inv.retries = 4
    /\ ~TransientSignature(inv.errs[3])

(***************************************************************************)
(* Properties of the application state (SpecApp).                          *)
(***************************************************************************)
\* C28: whatever the user does and whenever the responses arrive, a result
\* is held whenever appState is SUCCESS.
C28_SuccessHasResult == appState = "SUCCESS" => analysisResult # NoResult

\* a response has put the application in SUCCESS while another submission
\* is still in flight
C28_Witness ==
    /\ appState = "SUCCESS"
    /\ analysisResult # NoResult
    /\ analysisResult.diagnosis = "Analysis Complete"
    /\ submitted = 2
    /\ Len(tasks) = 1

\* the step is handleSubmit handling the outcome of its generateWithRetry
\* (each submission is handled once, under its own token)
HandlesOutcome == writer' # 0 /\ writer' # writer

\* the authorisation error kind
IsAuthOutcome(out) ==
    /\ out.kind = "err"
    /\ out.error.message \in {"API_KEY_INVALID", "API_KEY_MISSING"}

\* C29: in the credential-gated revisions (App, P1), handling an outcome of
\* the authorisation error kind leaves hasKey false and appState ERROR with
\* an error message; handling any other failure never changes hasKey.
C29_AuthOutcomeDropsKey ==
    [][(variant \in {"App", "P1"} /\ HandlesOutcome /\ lastOutcome'.kind = "err") =>
          IF IsAuthOutcome(lastOutcome')
          THEN hasKey' = FALSE /\ appState' = "ERROR" /\ errorMsg' # NoMsg
          ELSE hasKey' = hasKey /\ appState' = "ERROR" /\ errorMsg' # NoMsg]_vars

\* an API_KEY_INVALID outcome has been handled in the P1 revision
C29_Witness ==
    /\ variant = "P1"
    /\ IsAuthOutcome(lastOutcome)
    /\ lastOutcome.error.message = "API_KEY_INVALID"
    /\ ~hasKey
    /\ appState = "ERROR"

\* the step is handleSubmit returning at its validation test
RefusesSubmit == lastOutcome' = Refused /\ lastOutcome # Refused

\* C30: handleSubmit on a description that is blank after trimming and no
\* images issues no outbound call and changes nothing but the error message,
\* which becomes the validation message.
C30_BlankSubmitOnlySetsMessage ==
    [][RefusesSubmit =>
          /\ trim(description) = <<>> /\ images = <<>>
          /\ errorMsg' = ValidationMsg
          /\ UNCHANGED <<appState, analysisResult, images, libraryItems, tasks, submitted,
                         description, hasKey, viewMode, loadingImages, reading>>
          \* handleReAnalyze clears the flag before it calls handleSubmit
          /\ isLibraryView' = IF variant = "P2" /\ ResultShown THEN FALSE ELSE isLibraryView]_vars

\* blank input has been refused while a result of an earlier submission was
\* held and a library was loaded
C30_Witness ==
    /\ lastOutcome = Refused
    /\ errorMsg = ValidationMsg
    /\ description = <<" ">>
    /\ images = <<>>
    /\ Len(libraryItems) > 0
    /\ submitted = 1
    /\ tasks = <<>>

====
